---- MODULE Spec2Model ----
(***************************************************************************)
(* ts-lombok: the marker -> plan -> member pipeline of the class transformer *)
(* (visitor, handler registry, generators) and the run-time behaviour of    *)
(* the members it generates.                                                *)
(*                                                                          *)
(* Text (identifiers, member names, messages) is a sequence of one-character *)
(* strings, so that capitalize and string concatenation are computed.       *)
(***************************************************************************)
EXTENDS Integers, Sequences, FiniteSets, TLC

VARIABLES
  cls,        \* the class declaration handed to transformClass (originalClass)
  pc,         \* position in transformClass / in the run of the emitted program
  decorators, \* transformClass: const decorators
  properties, \* transformClass: const properties
  plan,       \* transformClass: const plan (mutated by the handlers)
  handlers,   \* transformClass: const handlers
  idx,        \* index of the next handler whose modifyPlan runs
  out,        \* the class declaration the visitor returns for cls
  heap,       \* run time: the objects the test program holds (original, updated)
  last,       \* run time: the last operation of the program and its outcome
  statics,    \* run time: the static fields of the emitted class (User.instance)
  calls,      \* run time: the getInstance() calls made so far and their outcomes
  visit       \* the traversal of a source file by the visitor

vars ==
  <<cls, pc, decorators, properties, plan, handlers, idx, out, heap, last,
    statics, calls, visit>>

\* ------------------------------------------------------------------ bounds
\* longest list of decorators in the lists enumerated exhaustively
MaxDecorators == 2

\* ------------------------------------------------------------------ text
t_Record == <<"R","e","c","o","r","d">>
t_Value == <<"V","a","l","u","e">>
t_Equals == <<"E","q","u","a","l","s">>
t_With == <<"W","i","t","h">>
t_Getter == <<"G","e","t","t","e","r">>
t_Setter == <<"S","e","t","t","e","r">>
t_ToString == <<"T","o","S","t","r","i","n","g">>
t_Data == <<"D","a","t","a">>
t_Builder == <<"B","u","i","l","d","e","r">>
t_NoArgsConstructor == <<"N","o","A","r","g","s","C","o","n","s","t","r","u","c","t","o","r">>
t_AllArgsConstructor == <<"A","l","l","A","r","g","s","C","o","n","s","t","r","u","c","t","o","r">>
t_RequiredArgsConstructor == <<"R","e","q","u","i","r","e","d","A","r","g","s","C","o","n","s","t","r","u","c","t","o","r">>
t_Log == <<"L","o","g">>
t_Singleton == <<"S","i","n","g","l","e","t","o","n">>
t_NonNull == <<"N","o","n","N","u","l","l">>
t_Memoize == <<"M","e","m","o","i","z","e">>
t_Autobind == <<"A","u","t","o","b","i","n","d">>
\* decorators of other libraries
t_Injectable == <<"I","n","j","e","c","t","a","b","l","e">>
t_Column == <<"C","o","l","u","m","n">>

t_toString == <<"t","o","S","t","r","i","n","g">>
t_equals == <<"e","q","u","a","l","s">>
t_hashCode == <<"h","a","s","h","C","o","d","e">>
t_with == <<"w","i","t","h">>
t_get == <<"g","e","t">>
t_set == <<"s","e","t">>
t_builder == <<"b","u","i","l","d","e","r">>
t_instance == <<"i","n","s","t","a","n","c","e">>
t_getInstance == <<"g","e","t","I","n","s","t","a","n","c","e">>
t_log == <<"l","o","g">>
t_other == <<"o","t","h","e","r">>
t_Anonymous == <<"A","n","o","n","y","m","o","u","s">>
t_cannotBeNull == <<" ","c","a","n","n","o","t"," ","b","e"," ","n","u","l","l"," ","o","r"," ","u","n","d","e","f","i","n","e","d">>
t_User == <<"U","s","e","r">>

LowerCase == <<"a","b","c","d","e","f","g","h","i","j","k","l","m","n","o","p","q","r","s","t","u","v","w","x","y","z">>
UpperCase == <<"A","B","C","D","E","F","G","H","I","J","K","L","M","N","O","P","Q","R","S","T","U","V","W","X","Y","Z">>

\* String.prototype.toUpperCase on one character
toUpperCase(c) ==
  IF \E i \in DOMAIN LowerCase : LowerCase[i] = c
    THEN UpperCase[CHOOSE i \in DOMAIN LowerCase : LowerCase[i] = c]
    ELSE c

\* str.charAt(0).toUpperCase() + str.slice(1)
capitalize(str) ==
  IF str = <<>> THEN <<>> ELSE <<toUpperCase(str[1])>> \o Tail(str)

\* Array.prototype.includes
includes(seq, x) == \E i \in DOMAIN seq : seq[i] = x

\* Array.prototype.map
Map(seq, F(_)) == [i \in DOMAIN seq |-> F(seq[i])]

\* Array.prototype.some
some(seq, P(_)) == \E i \in DOMAIN seq : P(seq[i])

\* concatenation of a sequence of sequences (members.push(...generated))
RECURSIVE Flatten(_)
Flatten(ss) == IF ss = <<>> THEN <<>> ELSE Head(ss) \o Flatten(Tail(ss))

\* ------------------------------------------------------------ syntax tree
\* A class element. kind: "property" | "constructor" | "method" | "accessor".
\* nameKind: "identifier" | "string" (a string-literal member name).
\* generated: the node was built by the factory, not parsed from the source.
\* private: the element carries the `private` keyword.
\* Types and parameter types are left out: no decision of the transformer
\* reads them.
ClassElement(kind, name, nameKind, private, static, readonly, optional, initializer, decs, generated, params, body) ==
  [kind |-> kind, name |-> name, nameKind |-> nameKind, private |-> private,
   static |-> static, readonly |-> readonly, optional |-> optional,
   initializer |-> initializer, decorators |-> decs, generated |-> generated,
   params |-> params, body |-> body]

\* A statement of a generated body (or the opaque body of hand-written code).
Stmt(stmt, field, args, text) ==
  [stmt |-> stmt, field |-> field, args |-> args, text |-> text]

\* the body of a hand-written constructor or method: opaque to the transformer
UserBody == <<Stmt("user", <<>>, <<>>, <<>>)>>

\* src/utils/decorator-utils.ts
KNOWN_CLASS_DECORATORS ==
  <<t_Record, t_Value, t_Equals, t_With, t_Getter, t_Setter, t_ToString,
    t_Data, t_Builder, t_NoArgsConstructor, t_AllArgsConstructor,
    t_RequiredArgsConstructor, t_Log, t_Singleton>>

KNOWN_PROPERTY_DECORATORS == <<t_NonNull, t_Getter, t_Setter>>

KNOWN_METHOD_DECORATORS == <<t_Memoize, t_Autobind>>

isKnownDecorator(name) == includes(KNOWN_CLASS_DECORATORS, name)

getKnownDecorators(node) ==
  SelectSeq(node.decorators, LAMBDA name : includes(KNOWN_CLASS_DECORATORS, name))

\* mutant: every decorator of the class is dropped, known or not
removeKnownDecorators_all(node) == <<>>

removeKnownDecorators(node) ==
  SelectSeq(node.decorators, LAMBDA d : ~isKnownDecorator(d))

PropertyInfo(member) ==
  [name |-> member.name,
   isOptional |-> member.optional,
   isReadonly |-> member.readonly,
   hasInitializer |-> member.initializer,
   isNonNull |-> includes(member.decorators, t_NonNull),
   hasGetter |-> includes(member.decorators, t_Getter),
   hasSetter |-> includes(member.decorators, t_Setter),
   decorators |-> member.decorators]

getClassProperties(node) ==
  Map(SelectSeq(node.members,
                LAMBDA member : /\ member.kind = "property"
                                /\ member.nameKind = "identifier"
                                /\ ~member.static),
      PropertyInfo)

getRequiredProperties(props) ==
  SelectSeq(props, LAMBDA p : ~p.isOptional /\ ~p.hasInitializer)

hasConstructor(node) == some(node.members, LAMBDA m : m.kind = "constructor")

hasMethod(node, methodName) ==
  some(node.members, LAMBDA m : /\ m.kind = "method"
                                /\ m.nameKind = "identifier"
                                /\ m.name = methodName)

\* ------------------------------------------------------ transformer/context
createDefaultPlan(classDeclaration, props) ==
  [className |-> IF classDeclaration.name # <<>> THEN classDeclaration.name
                 ELSE t_Anonymous,
   properties |-> props,
   decorators |-> <<>>,
   generateConstructor |-> FALSE,
   constructorType |-> "all",
   freezeInstance |-> FALSE,
   makeReadonly |-> FALSE,
   generateToString |-> FALSE,
   generateEquals |-> FALSE,
   generateHashCode |-> FALSE,
   generateWithMethods |-> FALSE,
   generateGetters |-> FALSE,
   generateSetters |-> FALSE,
   generateBuilder |-> FALSE,
   generateLog |-> FALSE,
   generateSingleton |-> FALSE,
   validateNonNull |-> some(props, LAMBDA p : p.isNonNull)]

createPlan(classDeclaration, props, decs) ==
  [createDefaultPlan(classDeclaration, props) EXCEPT !.decorators = decs]

\* ------------------------------------------------------------- generators
\* a method built by createMethodDeclaration / factory.createMethodDeclaration
GeneratedMethod(name, static, params, body) ==
  ClassElement("method", name, "identifier", FALSE, static, FALSE, FALSE, FALSE,
               <<>>, TRUE, params, body)

\* a field built by factory.createPropertyDeclaration
GeneratedProperty(name, private, static, readonly, initializer) ==
  ClassElement("property", name, "identifier", private, static, readonly,
               FALSE, initializer, <<>>, TRUE, <<>>, <<>>)

propertyNames(props) == Map(props, LAMBDA p : p.name)

\* if (name == null) { throw new Error(`${name} cannot be null or undefined`) }
generateNonNullValidation(propertyName) ==
  Stmt("nonnull", propertyName, <<>>, propertyName \o t_cannotBeNull)

\* this.name = name;
createPropertyAssignment(propertyName) ==
  Stmt("assign", propertyName, <<>>, <<>>)

\* Object.freeze(this);
generateFreezeStatement == Stmt("freeze", <<>>, <<>>, <<>>)

\* mutant: 'required' forgets the fields with an initializer
getConstructorProperties_noInit(p) ==
  CASE p.constructorType = "none" -> <<>>
    [] p.constructorType = "required" ->
         SelectSeq(p.properties, LAMBDA q : ~q.isOptional)
    [] OTHER -> p.properties

getConstructorProperties(p) ==
  CASE p.constructorType = "none" -> <<>>
    [] p.constructorType = "required" ->
         SelectSeq(p.properties, LAMBDA q : ~q.isOptional /\ ~q.hasInitializer)
    [] OTHER -> p.properties

\* mutant: the assignments are emitted before the null checks
generateConstructor_assignFirst(p, additionalStatements) ==
  LET constructorProps == getConstructorProperties(p)
      parameters == propertyNames(constructorProps)
      validations ==
        IF p.validateNonNull
          THEN Map(SelectSeq(constructorProps, LAMBDA q : q.isNonNull),
                   LAMBDA q : generateNonNullValidation(q.name))
          ELSE <<>>
      assignments == Map(constructorProps,
                         LAMBDA q : createPropertyAssignment(q.name))
  IN ClassElement("constructor", <<>>, "identifier", FALSE, FALSE, FALSE,
                  FALSE, FALSE, <<>>, TRUE, parameters,
                  assignments \o validations \o additionalStatements)

generateConstructor(p, additionalStatements) ==
  LET constructorProps == getConstructorProperties(p)
      parameters == propertyNames(constructorProps)
      validations ==
        IF p.validateNonNull
          THEN Map(SelectSeq(constructorProps, LAMBDA q : q.isNonNull),
                   LAMBDA q : generateNonNullValidation(q.name))
          ELSE <<>>
      assignments == Map(constructorProps,
                         LAMBDA q : createPropertyAssignment(q.name))
  IN ClassElement("constructor", <<>>, "identifier", FALSE, FALSE, FALSE,
                  FALSE, FALSE, <<>>, TRUE, parameters,
                  validations \o assignments \o additionalStatements)

\* mutant: the fields of the template are not separated
createToStringTemplateLiteral_noSeparator(className, fieldNames) ==
  IF Len(fieldNames) = 0
    THEN [head |-> className \o <<"(", ")">>, spans |-> <<>>]
    ELSE [head |-> className \o <<"(">> \o fieldNames[1] \o <<"=">>,
          spans |->
            [index \in DOMAIN fieldNames |->
               [field |-> fieldNames[index],
                literal |-> IF index = Len(fieldNames) THEN <<")">>
                            ELSE fieldNames[index + 1] \o <<"=">>]]]

\* `ClassName(f1=${this.f1}, f2=${this.f2})`: the head of the template and one
\* span per field, the expression this.field followed by literal text
createToStringTemplateLiteral(className, fieldNames) ==
  IF Len(fieldNames) = 0
    THEN [head |-> className \o <<"(", ")">>, spans |-> <<>>]
    ELSE [head |-> className \o <<"(">> \o fieldNames[1] \o <<"=">>,
          spans |->
            [index \in DOMAIN fieldNames |->
               [field |-> fieldNames[index],
                literal |-> IF index = Len(fieldNames) THEN <<")">>
                            ELSE <<",", " ">> \o fieldNames[index + 1] \o <<"=">>]]]

\* (this.field == null ? 0 : typeof this.field === 'number' ? this.field
\*    : String(this.field).length)
createFieldHashExpression(fieldName) == [hashOf |-> fieldName]

\* 0 for no field; otherwise (((h1 * 31) + h2) * 31 + h3 ...) | 0, kept as the
\* operands h1, h2, ... of the left-nested sum
createHashCodeComputation(fieldNames) ==
  [index \in DOMAIN fieldNames |-> createFieldHashExpression(fieldNames[index])]

\* true for no field; otherwise this.f1 === other.f1 && this.f2 === other.f2
\* ..., kept as the operands of the && chain
createEqualityCheck(fieldNames, otherParam) ==
  [index \in DOMAIN fieldNames |->
     [left |-> fieldNames[index], other |-> otherParam,
      right |-> fieldNames[index]]]

\* return `ClassName(f1=${this.f1}, ...)`;
generateToString(p) ==
  LET templateLiteral ==
        createToStringTemplateLiteral(p.className, propertyNames(p.properties))
  IN GeneratedMethod(t_toString, FALSE, <<>>,
       <<Stmt("returnTemplate", <<>>, templateLiteral.spans, templateLiteral.head)>>)

generateEquals(p) ==
  GeneratedMethod(t_equals, FALSE, <<t_other>>,
    <<Stmt("ifNullReturnFalse", t_other, <<>>, <<>>),
      Stmt("ifSameReturnTrue", t_other, <<>>, <<>>),
      Stmt("ifNotInstanceReturnFalse", t_other, <<>>, p.className),
      Stmt("returnEquality", t_other,
           createEqualityCheck(propertyNames(p.properties), t_other), <<>>)>>)

generateHashCode(p) ==
  GeneratedMethod(t_hashCode, FALSE, <<>>,
    <<Stmt("returnHash", <<>>,
           createHashCodeComputation(propertyNames(p.properties)), <<>>)>>)

\* withX(x) { return new ClassName(this.a, x, this.c); }: args lists the
\* properties whose values are passed, the parameter standing for `field`
generateWithMethod(p, propertyName) ==
  GeneratedMethod(t_with \o capitalize(propertyName), FALSE, <<propertyName>>,
    <<Stmt("returnNew", propertyName, propertyNames(p.properties), p.className)>>)

generateWithMethods(p) ==
  Map(p.properties, LAMBDA q : generateWithMethod(p, q.name))

generateGetters(p) ==
  Map(p.properties,
      LAMBDA q : GeneratedMethod(t_get \o capitalize(q.name), FALSE, <<>>,
                   <<Stmt("returnField", q.name, <<>>, <<>>)>>))

generateSetters(p) ==
  Map(SelectSeq(p.properties, LAMBDA q : ~q.isReadonly),
      LAMBDA q : GeneratedMethod(t_set \o capitalize(q.name), FALSE, <<q.name>>,
                   <<Stmt("assign", q.name, <<>>, <<>>)>>))

generateBuilder(p) ==
  <<GeneratedMethod(t_builder, TRUE, <<>>,
      <<Stmt("returnNewBuilder", <<>>, <<>>, p.className \o t_Builder)>>)>>

generateSingleton(p) ==
  <<GeneratedProperty(t_instance, TRUE, TRUE, FALSE, TRUE),
    GeneratedMethod(t_getInstance, TRUE, <<>>,
      <<Stmt("ifNoInstanceNew", t_instance, <<>>, p.className),
        Stmt("returnInstance", t_instance, <<>>, p.className)>>)>>

generateLog(p) == <<GeneratedProperty(t_log, FALSE, FALSE, TRUE, TRUE)>>

\* --------------------------------------------------------------- handlers
PriorityRecord == 100
PriorityValue == 100
PriorityEquals == 70
PriorityWith == 70
PriorityGetter == 80
PrioritySetter == 80
PriorityToString == 70
PriorityData == 100
PriorityBuilder == 90
PriorityNoArgsConstructor == 95
PriorityAllArgsConstructor == 95
PriorityRequiredArgsConstructor == 95
PriorityLog == 60
PrioritySingleton == 100

\* mutant: @Record does not freeze
RecordHandler_modifyPlan_noFreeze(p) ==
  [p EXCEPT !.generateConstructor = TRUE, !.constructorType = "all",
            !.makeReadonly = TRUE, !.generateToString = TRUE]

RecordHandler_modifyPlan(p) ==
  [p EXCEPT !.generateConstructor = TRUE, !.constructorType = "all",
            !.freezeInstance = TRUE, !.makeReadonly = TRUE,
            !.generateToString = TRUE]

RecordHandler_generateMembers(p) ==
  IF p.generateToString THEN <<generateToString(p)>> ELSE <<>>

\* mutant: @Value does not freeze
ValueHandler_modifyPlan_noFreeze(p) ==
  [p EXCEPT !.generateConstructor = TRUE, !.constructorType = "all",
            !.makeReadonly = TRUE, !.generateToString = TRUE]

ValueHandler_modifyPlan(p) ==
  [p EXCEPT !.generateConstructor = TRUE, !.constructorType = "all",
            !.freezeInstance = TRUE, !.makeReadonly = TRUE,
            !.generateToString = TRUE]

ValueHandler_generateMembers(p) ==
  IF p.generateToString THEN <<generateToString(p)>> ELSE <<>>

EqualsHandler_modifyPlan(p) ==
  [p EXCEPT !.generateEquals = TRUE, !.generateHashCode = TRUE]

EqualsHandler_generateMembers(p) ==
  (IF p.generateEquals THEN <<generateEquals(p)>> ELSE <<>>)
  \o (IF p.generateHashCode THEN <<generateHashCode(p)>> ELSE <<>>)

WithHandler_modifyPlan(p) == [p EXCEPT !.generateWithMethods = TRUE]

WithHandler_generateMembers(p) ==
  IF p.generateWithMethods THEN generateWithMethods(p) ELSE <<>>

GetterHandler_modifyPlan(p) == [p EXCEPT !.generateGetters = TRUE]

GetterHandler_generateMembers(p) ==
  IF p.generateGetters THEN generateGetters(p) ELSE <<>>

SetterHandler_modifyPlan(p) == [p EXCEPT !.generateSetters = TRUE]

SetterHandler_generateMembers(p) ==
  IF p.generateSetters THEN generateSetters(p) ELSE <<>>

ToStringHandler_modifyPlan(p) == [p EXCEPT !.generateToString = TRUE]

ToStringHandler_generateMembers(p) ==
  IF p.generateToString THEN <<generateToString(p)>> ELSE <<>>

\* mutant: @Data forgets hashCode
DataHandler_modifyPlan_noHash(p) ==
  [p EXCEPT !.generateConstructor = TRUE, !.constructorType = "all",
            !.generateGetters = TRUE, !.generateSetters = TRUE,
            !.generateToString = TRUE, !.generateEquals = TRUE]

DataHandler_modifyPlan(p) ==
  [p EXCEPT !.generateConstructor = TRUE, !.constructorType = "all",
            !.generateGetters = TRUE, !.generateSetters = TRUE,
            !.generateToString = TRUE, !.generateEquals = TRUE,
            !.generateHashCode = TRUE]

DataHandler_generateMembers(p) ==
  (IF p.generateToString THEN <<generateToString(p)>> ELSE <<>>)
  \o (IF p.generateEquals THEN <<generateEquals(p)>> ELSE <<>>)
  \o (IF p.generateHashCode THEN <<generateHashCode(p)>> ELSE <<>>)
  \o (IF p.generateGetters THEN generateGetters(p) ELSE <<>>)
  \o (IF p.generateSetters THEN generateSetters(p) ELSE <<>>)

BuilderHandler_modifyPlan(p) ==
  [p EXCEPT !.generateBuilder = TRUE, !.generateConstructor = TRUE,
            !.constructorType = "all"]

BuilderHandler_generateMembers(p) ==
  IF p.generateBuilder THEN generateBuilder(p) ELSE <<>>

\* mutant: asking for no constructor arguments also switches the freeze off
NoArgsConstructorHandler_modifyPlan_noFreeze(p) ==
  [p EXCEPT !.generateConstructor = TRUE, !.constructorType = "none",
            !.freezeInstance = FALSE]

NoArgsConstructorHandler_modifyPlan(p) ==
  [p EXCEPT !.generateConstructor = TRUE, !.constructorType = "none"]

AllArgsConstructorHandler_modifyPlan(p) ==
  [p EXCEPT !.generateConstructor = TRUE, !.constructorType = "all"]

RequiredArgsConstructorHandler_modifyPlan(p) ==
  [p EXCEPT !.generateConstructor = TRUE, !.constructorType = "required"]

LogHandler_modifyPlan(p) == [p EXCEPT !.generateLog = TRUE]

LogHandler_generateMembers(p) ==
  IF p.generateLog THEN generateLog(p) ELSE <<>>

SingletonHandler_modifyPlan(p) == [p EXCEPT !.generateSingleton = TRUE]

SingletonHandler_generateMembers(p) ==
  IF p.generateSingleton THEN generateSingleton(p) ELSE <<>>

\* A handler object: its decoratorName and priority (the methods are the
\* <Name>Handler_modifyPlan / _generateMembers operators above).
Handler(decoratorName, priority) ==
  [decoratorName |-> decoratorName, priority |-> priority]

\* HandlerRegistry.registerDefaults: the handlers in registration order
registerDefaults ==
  <<Handler(t_Record, PriorityRecord), Handler(t_Value, PriorityValue),
    Handler(t_Equals, PriorityEquals), Handler(t_With, PriorityWith),
    Handler(t_Getter, PriorityGetter), Handler(t_Setter, PrioritySetter),
    Handler(t_ToString, PriorityToString), Handler(t_Data, PriorityData),
    Handler(t_Builder, PriorityBuilder),
    Handler(t_NoArgsConstructor, PriorityNoArgsConstructor),
    Handler(t_AllArgsConstructor, PriorityAllArgsConstructor),
    Handler(t_RequiredArgsConstructor, PriorityRequiredArgsConstructor),
    Handler(t_Log, PriorityLog), Handler(t_Singleton, PrioritySingleton)>>

\* HandlerRegistry.has
registryHas(decoratorName) ==
  some(registerDefaults, LAMBDA h : h.decoratorName = decoratorName)

\* HandlerRegistry.get (of a registered name)
registryGet(decoratorName) ==
  registerDefaults[CHOOSE i \in DOMAIN registerDefaults :
                     registerDefaults[i].decoratorName = decoratorName]

\* handler.modifyPlan(plan), dispatched on the handler object
modifyPlan(h, p) ==
  CASE h.decoratorName = t_Record -> RecordHandler_modifyPlan(p)
    [] h.decoratorName = t_Value -> ValueHandler_modifyPlan(p)
    [] h.decoratorName = t_Equals -> EqualsHandler_modifyPlan(p)
    [] h.decoratorName = t_With -> WithHandler_modifyPlan(p)
    [] h.decoratorName = t_Getter -> GetterHandler_modifyPlan(p)
    [] h.decoratorName = t_Setter -> SetterHandler_modifyPlan(p)
    [] h.decoratorName = t_ToString -> ToStringHandler_modifyPlan(p)
    [] h.decoratorName = t_Data -> DataHandler_modifyPlan(p)
    [] h.decoratorName = t_Builder -> BuilderHandler_modifyPlan(p)
    [] h.decoratorName = t_NoArgsConstructor -> NoArgsConstructorHandler_modifyPlan(p)
    [] h.decoratorName = t_AllArgsConstructor -> AllArgsConstructorHandler_modifyPlan(p)
    [] h.decoratorName = t_RequiredArgsConstructor -> RequiredArgsConstructorHandler_modifyPlan(p)
    [] h.decoratorName = t_Log -> LogHandler_modifyPlan(p)
    [] h.decoratorName = t_Singleton -> SingletonHandler_modifyPlan(p)

\* handler.generateMembers(factory, plan), dispatched on the handler object
generateMembers(h, p) ==
  CASE h.decoratorName = t_Record -> RecordHandler_generateMembers(p)
    [] h.decoratorName = t_Value -> ValueHandler_generateMembers(p)
    [] h.decoratorName = t_Equals -> EqualsHandler_generateMembers(p)
    [] h.decoratorName = t_With -> WithHandler_generateMembers(p)
    [] h.decoratorName = t_Getter -> GetterHandler_generateMembers(p)
    [] h.decoratorName = t_Setter -> SetterHandler_generateMembers(p)
    [] h.decoratorName = t_ToString -> ToStringHandler_generateMembers(p)
    [] h.decoratorName = t_Data -> DataHandler_generateMembers(p)
    [] h.decoratorName = t_Builder -> BuilderHandler_generateMembers(p)
    [] h.decoratorName = t_Log -> LogHandler_generateMembers(p)
    [] h.decoratorName = t_Singleton -> SingletonHandler_generateMembers(p)
    [] OTHER -> <<>>

\* Array.prototype.sort((a, b) => b.priority - a.priority): a stable sort,
\* computed by insertion: h goes after every element with priority >= its own
\* mutant: h goes before the elements of its own priority
RECURSIVE insertByPriority_beforeEqual(_, _)
insertByPriority_beforeEqual(sorted, h) ==
  IF sorted = <<>> THEN <<h>>
  ELSE IF Head(sorted).priority > h.priority
         THEN <<Head(sorted)>> \o insertByPriority_beforeEqual(Tail(sorted), h)
         ELSE <<h>> \o sorted

RECURSIVE insertByPriority(_, _)
insertByPriority(sorted, h) ==
  IF sorted = <<>> THEN <<h>>
  ELSE IF Head(sorted).priority >= h.priority
         THEN <<Head(sorted)>> \o insertByPriority(Tail(sorted), h)
         ELSE <<h>> \o sorted

RECURSIVE sortByPriority(_)
sortByPriority(hs) ==
  IF hs = <<>> THEN <<>>
  ELSE insertByPriority(sortByPriority(SubSeq(hs, 1, Len(hs) - 1)), hs[Len(hs)])

getHandlersForDecorators(decoratorNames) ==
  sortByPriority(Map(SelectSeq(decoratorNames, registryHas), registryGet))

\* ---------------------------------------------------- transformer/visitor
\* mutant: every decorator of the property is dropped, known or not
stripPropertyDecorators_all(property) ==
  [property EXCEPT !.decorators = <<>>]

stripPropertyDecorators(property) ==
  LET remainingDecorators ==
        SelectSeq(property.decorators,
                  LAMBDA name : ~includes(KNOWN_PROPERTY_DECORATORS, name))
  IN IF Len(remainingDecorators) = Len(property.decorators) THEN property
     ELSE [property EXCEPT !.decorators = remainingDecorators]

makePropertyReadonly(property) ==
  IF property.readonly THEN property ELSE [property EXCEPT !.readonly = TRUE]

\* the first loop of executeTransformation, for one member of the original
\* class: the members pushed to newMembers for it
transformMember(p, member) ==
  CASE member.kind = "property" ->
         <<IF p.makeReadonly
             THEN makePropertyReadonly(stripPropertyDecorators(member))
             ELSE stripPropertyDecorators(member)>>
    [] member.kind = "constructor" ->
         IF ~p.generateConstructor THEN <<member>> ELSE <<>>
    [] OTHER -> <<member>>

\* the inner loop over one handler's generated members
keptGenerated(originalClass, generated) ==
  SelectSeq(generated,
            LAMBDA member :
              IF member.kind = "method" /\ member.nameKind = "identifier"
                THEN ~hasMethod(originalClass, member.name)
                ELSE TRUE)

\* mutant: the generated members are put in front of the copied ones
executeTransformation_generatedFirst(p, hs, originalClass) ==
  LET existing == Flatten(Map(originalClass.members,
                              LAMBDA member : transformMember(p, member)))
      withConstructor ==
        IF p.generateConstructor /\ ~hasConstructor(originalClass)
          THEN <<generateConstructor(p,
                   IF p.freezeInstance THEN <<generateFreezeStatement>>
                   ELSE <<>>)>> \o existing
          ELSE existing
      generated == Flatten(Map(hs,
                     LAMBDA h : keptGenerated(originalClass, generateMembers(h, p))))
  IN [name |-> originalClass.name,
      decorators |-> removeKnownDecorators(originalClass),
      members |-> generated \o withConstructor]

executeTransformation(p, hs, originalClass) ==
  LET existing == Flatten(Map(originalClass.members,
                              LAMBDA member : transformMember(p, member)))
      withConstructor ==
        IF p.generateConstructor /\ ~hasConstructor(originalClass)
          THEN <<generateConstructor(p,
                   IF p.freezeInstance THEN <<generateFreezeStatement>>
                   ELSE <<>>)>> \o existing
          ELSE existing
      generated == Flatten(Map(hs,
                     LAMBDA h : keptGenerated(originalClass, generateMembers(h, p))))
  IN [name |-> originalClass.name,
      decorators |-> removeKnownDecorators(originalClass),
      members |-> withConstructor \o generated]

\* properties.some(p => p.decorators.length > 0)
hasPropertyDecorators(props) == some(props, LAMBDA q : Len(q.decorators) > 0)

\* the early return of transformClass: "No transformation needed"
noTransformationNeeded(node) ==
  /\ Len(getKnownDecorators(node)) = 0
  /\ ~hasPropertyDecorators(getClassProperties(node))

\* the loop `for (const handler of handlers) handler.modifyPlan(plan)`
RECURSIVE modifyPlans(_, _)
modifyPlans(hs, p) ==
  IF hs = <<>> THEN p ELSE modifyPlans(Tail(hs), modifyPlan(Head(hs), p))

\* the class declaration the visitor returns for node (node itself when
\* transformClass returns undefined)
transformClass(node) ==
  IF noTransformationNeeded(node) THEN node
  ELSE LET known == getKnownDecorators(node)
           hs == getHandlersForDecorators(known)
       IN executeTransformation(
            modifyPlans(hs, createPlan(node, getClassProperties(node), known)),
            hs, node)

\* ------------------------------------------------- the classes transformed
fx == <<"x">>
fy == <<"y">>
fz == <<"z">>
t_getX == <<"g","e","t","X">>

\* a field written in the source
UserProperty(name, static, readonly, optional, initializer, decs) ==
  ClassElement("property", name, "identifier", FALSE, static, readonly,
               optional, initializer, decs, FALSE, <<>>, <<>>)

\* a field whose name is written as a string literal:  "y": number;
UserStringNamedProperty(name) ==
  ClassElement("property", name, "string", FALSE, FALSE, FALSE, FALSE, FALSE,
               <<>>, FALSE, <<>>, <<>>)

\* a constructor written in the source
UserConstructor ==
  ClassElement("constructor", <<>>, "identifier", FALSE, FALSE, FALSE, FALSE,
               FALSE, <<>>, FALSE, <<>>, UserBody)

\* a method written in the source; nameKind "string" is  "toString"() {...}
UserMethod(name, nameKind) ==
  ClassElement("method", name, nameKind, FALSE, FALSE, FALSE, FALSE, FALSE,
               <<>>, FALSE, <<>>, UserBody)

FieldLists ==
  { <<>>,
    <<UserProperty(fx, FALSE, FALSE, FALSE, FALSE, <<>>),
      UserProperty(fy, FALSE, FALSE, FALSE, FALSE, <<>>)>>,
    <<UserProperty(fy, FALSE, FALSE, FALSE, FALSE, <<>>),
      UserProperty(fx, FALSE, TRUE, FALSE, FALSE, <<>>)>>,
    <<UserProperty(fx, FALSE, FALSE, FALSE, FALSE, <<t_NonNull>>),
      UserProperty(fy, FALSE, FALSE, FALSE, FALSE, <<>>)>>,
    <<UserProperty(fx, FALSE, FALSE, FALSE, FALSE, <<>>),
      UserProperty(fy, FALSE, FALSE, TRUE, FALSE, <<t_NonNull>>)>>,
    <<UserProperty(fy, FALSE, FALSE, FALSE, TRUE, <<>>),
      UserProperty(fx, FALSE, FALSE, FALSE, FALSE, <<>>)>>,
    <<UserProperty(fz, TRUE, FALSE, FALSE, FALSE, <<>>),
      UserProperty(fx, FALSE, FALSE, FALSE, FALSE, <<>>)>>,
    <<UserProperty(fx, FALSE, FALSE, FALSE, FALSE, <<t_Column>>)>>,
    <<UserProperty(fx, FALSE, FALSE, FALSE, FALSE, <<t_Getter, t_Column>>)>>,
    <<UserProperty(fx, FALSE, FALSE, FALSE, FALSE, <<>>),
      UserProperty(fy, FALSE, FALSE, FALSE, FALSE, <<t_Setter>>)>>,
    <<UserStringNamedProperty(fy),
      UserProperty(fx, FALSE, FALSE, FALSE, FALSE, <<>>)>>,
    <<UserProperty(t_log, FALSE, FALSE, FALSE, TRUE, <<>>)>> }

HandWritten ==
  { <<>>,
    <<UserConstructor>>,
    <<UserMethod(t_toString, "identifier")>>,
    <<UserConstructor, UserMethod(t_getX, "identifier")>>,
    <<UserMethod(t_toString, "string")>> }

\* the decorators a class may carry: the known ones and one of another library
ClassDecoratorNames ==
  {KNOWN_CLASS_DECORATORS[i] : i \in DOMAIN KNOWN_CLASS_DECORATORS}
    \cup {t_Injectable}

\* classes that carry decorators of two other libraries around one of ours,
\* and one that carries three of ours, the lowest priority written first
MixedDecoratorLists ==
  { <<t_Injectable, t_Record, t_Column>>,
    <<t_Column, t_Data, t_Injectable>>,
    <<t_ToString, t_Value, t_Record>> }

DecoratorLists ==
  UNION {[1..n -> ClassDecoratorNames] : n \in 0..MaxDecorators}
    \cup MixedDecoratorLists

Classes ==
  { [name |-> t_User, decorators |-> ds, members |-> fl \o hw] :
      ds \in DecoratorLists, fl \in FieldLists, hw \in HandWritten }

NoPlan == createDefaultPlan([name |-> <<>>], <<>>)

\* no source file is being traversed
NoVisit == [file |-> <<>>, pending |-> <<>>, processed |-> <<>>, result |-> <<>>]

\* ---------------------------------------------- transformClass, step by step
Init ==
  /\ cls \in Classes
  /\ pc = "start"
  /\ decorators = <<>>
  /\ properties = <<>>
  /\ plan = NoPlan
  /\ handlers = <<>>
  /\ idx = 1
  /\ out = cls
  /\ heap = <<>>
  /\ last = [op |-> "none"]
  /\ statics = <<>>
  /\ calls = <<>>
  /\ visit = NoVisit

\* transformClass returns undefined: the visitor keeps the node
ReturnUndefined ==
  /\ pc = "start"
  /\ noTransformationNeeded(cls)
  /\ decorators' = getKnownDecorators(cls)
  /\ properties' = getClassProperties(cls)
  /\ out' = cls
  /\ pc' = "unchanged"
  /\ UNCHANGED <<cls, plan, handlers, idx, heap, last,
               statics, calls, visit>>

\* context.createPlan and handlerRegistry.getHandlersForDecorators
CreatePlan ==
  /\ pc = "start"
  /\ ~noTransformationNeeded(cls)
  /\ decorators' = getKnownDecorators(cls)
  /\ properties' = getClassProperties(cls)
  /\ plan' = createPlan(cls, getClassProperties(cls), getKnownDecorators(cls))
  /\ handlers' = getHandlersForDecorators(getKnownDecorators(cls))
  /\ idx' = 1
  /\ pc' = "modifyPlan"
  /\ UNCHANGED <<cls, out, heap, last,
               statics, calls, visit>>

\* one iteration of `for (const handler of handlers) handler.modifyPlan(plan)`
ModifyPlan ==
  /\ pc = "modifyPlan"
  /\ idx <= Len(handlers)
  /\ plan' = modifyPlan(handlers[idx], plan)
  /\ idx' = idx + 1
  /\ UNCHANGED <<cls, pc, decorators, properties, handlers, out, heap, last,
               statics, calls, visit>>

\* return executeTransformation(factory, plan, handlers, node)
ExecuteTransformation ==
  /\ pc = "modifyPlan"
  /\ idx > Len(handlers)
  /\ out' = executeTransformation(plan, handlers, cls)
  /\ pc' = "transformed"
  /\ UNCHANGED <<cls, decorators, properties, plan, handlers, idx, heap, last,
               statics, calls, visit>>

Next ==
  \/ ReturnUndefined
  \/ CreatePlan
  \/ ModifyPlan
  \/ ExecuteTransformation

Spec == Init /\ [][Next]_vars

\* ------------------------------------------------------------ properties
\* the members of a class declaration, as a set
Members(node) == {node.members[i] : i \in DOMAIN node.members}

\* transformClass has returned for cls after rewriting it
Rewritten == pc = "transformed"

\* the generation flags and the constructor mode of a plan
Flags(p) ==
  [generateConstructor |-> p.generateConstructor,
   constructorType |-> p.constructorType,
   freezeInstance |-> p.freezeInstance,
   makeReadonly |-> p.makeReadonly,
   generateToString |-> p.generateToString,
   generateEquals |-> p.generateEquals,
   generateHashCode |-> p.generateHashCode,
   generateWithMethods |-> p.generateWithMethods,
   generateGetters |-> p.generateGetters,
   generateSetters |-> p.generateSetters,
   generateBuilder |-> p.generateBuilder,
   generateLog |-> p.generateLog,
   generateSingleton |-> p.generateSingleton,
   validateNonNull |-> p.validateNonNull]

\* C1: a class that declares its own constructor and carries recognized
\* markers still contains that constructor, unmodified, after the rewrite,
\* whichever flags the plan has set.
C1_OriginalConstructorKept ==
  Rewritten =>
    \A m \in Members(cls) : m.kind = "constructor" => m \in Members(out)

\* C2: a hand-written method named N is in the rewritten class unchanged, and
\* the rewritten class has no generated method named N.
C2_HandWrittenMethodWins ==
  Rewritten =>
    \A m \in Members(cls) :
      m.kind = "method" =>
        /\ m \in Members(out)
        /\ ~\E g \in Members(out) :
              g.kind = "method" /\ g.generated /\ g.name = m.name

\* no decorator the transformer knows is written on the class or on a field
NoRecognizedMarkers(node) ==
  /\ \A i \in DOMAIN node.decorators : ~isKnownDecorator(node.decorators[i])
  /\ \A m \in Members(node) :
       m.kind = "property" =>
         \A i \in DOMAIN m.decorators :
           ~includes(KNOWN_PROPERTY_DECORATORS, m.decorators[i])

\* C3: a class with no recognized class marker and no recognized field
\* marker comes out of the visitor with the same name, the same decorators
\* and the same members in the same order.
C3_NoMarkersUntouched ==
  (pc \in {"unchanged", "transformed"} /\ NoRecognizedMarkers(cls)) => out = cls

\* C3 witness: such a class that went through executeTransformation (a field
\* carries a decorator of another library) and one that took the early return
C3_Witness ==
  /\ pc = "transformed"
  /\ NoRecognizedMarkers(cls)
  /\ Len(cls.decorators) > 0
  /\ \E m \in Members(cls) : m.kind = "property" /\ Len(m.decorators) > 0

\* the constructors of the rewritten class that the transformer generated
GeneratedConstructors(node) ==
  {m \in Members(node) : m.kind = "constructor" /\ m.generated}

\* the generated method named `name` of the emitted class, as a set
GeneratedMethods(klass, name) ==
  {m \in Members(klass) : m.kind = "method" /\ m.generated /\ m.name = name}

\* params lists exactly the properties that satisfy Wanted, in their order
ListsInOrder(params, props, Wanted(_)) ==
  /\ \A q \in {props[i] : i \in DOMAIN props} :
       includes(params, q.name) <=> Wanted(q)
  /\ \A a, b \in DOMAIN params :
       a < b =>
         \E i, j \in DOMAIN props :
           i < j /\ props[i].name = params[a] /\ props[j].name = params[b]

\* C7: the generated constructor's parameters are none in mode 'none', every
\* property in declaration order in mode 'all', and in mode 'required' the
\* properties with no initializer that are not optional, in declaration order.
C7_ConstructorParameters ==
  Rewritten =>
    \A c \in GeneratedConstructors(out) :
      CASE plan.constructorType = "none" -> c.params = <<>>
        [] plan.constructorType = "all" ->
             ListsInOrder(c.params, properties, LAMBDA q : TRUE)
        [] plan.constructorType = "required" ->
             ListsInOrder(c.params, properties,
                          LAMBDA q : ~q.hasInitializer /\ ~q.isOptional)

\* C7 witness: a 'required' constructor that takes the second declared field
\* and leaves out the first, which has an initializer
C7_Witness ==
  /\ Rewritten
  /\ plan.constructorType = "required"
  /\ Len(properties) = 2
  /\ properties[1].hasInitializer
  /\ \E c \in GeneratedConstructors(out) : c.params = <<properties[2].name>>

\* the class carries @Record or @Value
Immutable(node) ==
  includes(node.decorators, t_Record) \/ includes(node.decorators, t_Value)

\* C8: a class carrying @Record or @Value with no hand-written constructor
\* gets a generated constructor whose parameters are all its fields in
\* declaration order, whatever other markers it carries.
C8_RecordConstructorAllFields ==
  (Rewritten /\ Immutable(cls) /\ ~hasConstructor(cls)) =>
    \E c \in GeneratedConstructors(out) :
      c.params = [i \in DOMAIN properties |-> properties[i].name]

\* the class with @Record written for @Value and @Value for @Record
SwapRecordValue(node) ==
  [node EXCEPT !.decorators =
     [i \in DOMAIN node.decorators |->
        CASE node.decorators[i] = t_Record -> t_Value
          [] node.decorators[i] = t_Value -> t_Record
          [] OTHER -> node.decorators[i]]]

\* C9: from any plan, the @Value handler and the @Record handler leave the
\* same flags and constructor mode, and a class rewrites into the same
\* members when @Value is written for @Record.
C9_ValueIsRecord ==
  /\ pc = "modifyPlan" =>
       Flags(modifyPlan(registryGet(t_Value), plan))
         = Flags(modifyPlan(registryGet(t_Record), plan))
  /\ (Rewritten /\ Immutable(cls)) =>
       out.members = transformClass(SwapRecordValue(cls)).members

\* C9 witness: a class rewritten under @Value alone, with its frozen
\* all-fields constructor
C9_Witness ==
  /\ Rewritten
  /\ cls.decorators = <<t_Value>>
  /\ plan.freezeInstance
  /\ \E c \in GeneratedConstructors(out) :
       Len(c.params) = 2 /\ c.body[Len(c.body)].stmt = "freeze"

\* the handlers @Data is documented to combine
DataParts ==
  <<registryGet(t_Getter), registryGet(t_Setter), registryGet(t_ToString),
    registryGet(t_Equals), registryGet(t_AllArgsConstructor)>>

\* C10: from the default plan, the one step of the @Data handler leaves the
\* flags and constructor mode that the handlers of @Getter, @Setter,
\* @ToString, @Equals and @AllArgsConstructor leave together: getters,
\* setters, toString, equals, hashCode and an all-fields constructor.
C10_DataIsComposite ==
  /\ (pc = "modifyPlan" /\ idx = 1) =>
       Flags(modifyPlan(registryGet(t_Data), plan))
         = Flags(modifyPlans(DataParts, plan))
  /\ (pc = "modifyPlan" /\ idx = 2 /\ decorators = <<t_Data>>) =>
       /\ Flags(plan)
            = Flags(modifyPlans(DataParts, createPlan(cls, properties, decorators)))
       /\ plan.generateGetters /\ plan.generateSetters
       /\ plan.generateToString /\ plan.generateEquals
       /\ plan.generateHashCode /\ plan.generateConstructor
       /\ plan.constructorType = "all"

\* C10 witness: the @Data handler has run on the default plan of a class
\* that carries @Data alone
C10_Witness ==
  /\ pc = "modifyPlan" /\ idx = 2
  /\ decorators = <<t_Data>>
  /\ plan.generateHashCode
  /\ Len(properties) = 2

\* the positions of cls.decorators that hold a decorator of another library
UnrecognizedAt(node) ==
  {i \in DOMAIN node.decorators :
     \A k \in DOMAIN KNOWN_CLASS_DECORATORS :
       KNOWN_CLASS_DECORATORS[k] # node.decorators[i]}

\* C11: the decorators of the class the visitor returns are the decorators of
\* the original class that are not recognized class markers, each of them
\* kept, in their original relative order, and no recognized one remains.
C11_RecognizedMarkersRemoved ==
  pc \in {"unchanged", "transformed"} =>
    /\ \A k \in DOMAIN out.decorators :
         \A n \in DOMAIN KNOWN_CLASS_DECORATORS :
           out.decorators[k] # KNOWN_CLASS_DECORATORS[n]
    /\ Len(out.decorators) = Cardinality(UnrecognizedAt(cls))
    /\ \A i \in UnrecognizedAt(cls) :
         out.decorators[Cardinality({j \in UnrecognizedAt(cls) : j < i}) + 1]
           = cls.decorators[i]

\* C11 witness: two different decorators of other libraries written around a
\* recognized one, which is removed from between them
C11_Witness ==
  /\ Rewritten
  /\ cls.decorators = <<t_Injectable, t_Record, t_Column>>
  /\ out.decorators = <<t_Injectable, t_Column>>

\* how many members of the class are generated methods named `name`
GeneratedCount(node, name) ==
  Cardinality({i \in DOMAIN node.members :
                 /\ node.members[i].kind = "method"
                 /\ node.members[i].generated
                 /\ node.members[i].name = name})

\* no decorator is written twice on the class
DistinctDecorators(node) ==
  \A i, j \in DOMAIN node.decorators :
    i # j => node.decorators[i] # node.decorators[j]

\* C17: with the getters flag set the rewritten class has exactly one
\* generated getX per property, returning that field; with the setters flag
\* set it has exactly one generated setX per property that is not read-only
\* in the original class, assigning its argument to the field, and none for
\* a read-only property (a hand-written method of that name stands in for
\* the generated one).
C17_OneAccessorPerProperty ==
  (Rewritten /\ DistinctDecorators(cls)) =>
    \A i \in DOMAIN properties :
      LET q == properties[i]
          getter == t_get \o capitalize(q.name)
          setter == t_set \o capitalize(q.name)
      IN /\ plan.generateGetters =>
              /\ GeneratedCount(out, getter)
                   = IF hasMethod(cls, getter) THEN 0 ELSE 1
              /\ \A m \in GeneratedMethods(out, getter) :
                   m.params = <<>> /\ Len(m.body) = 1
                   /\ m.body[1].stmt = "returnField" /\ m.body[1].field = q.name
         /\ plan.generateSetters =>
              /\ GeneratedCount(out, setter)
                   = IF q.isReadonly \/ hasMethod(cls, setter) THEN 0 ELSE 1
              /\ \A m \in GeneratedMethods(out, setter) :
                   m.params = <<q.name>> /\ Len(m.body) = 1
                   /\ m.body[1].stmt = "assign" /\ m.body[1].field = q.name

\* C18: a field that carries @Getter, respectively @Setter, has a generated
\* getX, respectively setX, in the rewritten class.
C18_PropertyLevelAccessor ==
  Rewritten =>
    \A i \in DOMAIN properties :
      LET q == properties[i]
          getter == t_get \o capitalize(q.name)
          setter == t_set \o capitalize(q.name)
      IN /\ (q.hasGetter /\ ~hasMethod(cls, getter)) =>
              GeneratedMethods(out, getter) # {}
         /\ (q.hasSetter /\ ~q.isReadonly /\ ~hasMethod(cls, setter)) =>
              GeneratedMethods(out, setter) # {}

\* the non-static fields the class declares, in declaration order
NonStaticFields(node) ==
  SelectSeq(node.members, LAMBDA m : m.kind = "property" /\ ~m.static)

\* C19: the extracted properties are the non-static fields of the class, one
\* descriptor each, in declaration order, with no descriptor for a static
\* field; the all-fields constructor's parameters, the fields of toString and
\* the operands of the hash are in that same order.
C19_OneDescriptorPerField ==
  pc \in {"unchanged", "modifyPlan", "transformed"} =>
    LET fields == NonStaticFields(cls)
        names == [i \in DOMAIN fields |-> fields[i].name]
    IN /\ Len(properties) = Len(fields)
       /\ \A i \in DOMAIN properties : properties[i].name = names[i]
       /\ Rewritten =>
            /\ \A c \in GeneratedConstructors(out) :
                 plan.constructorType = "all" => c.params = names
            /\ \A m \in GeneratedMethods(out, t_toString) :
                 [i \in DOMAIN m.body[1].args |-> m.body[1].args[i].field] = names
            /\ \A m \in GeneratedMethods(out, t_hashCode) :
                 [i \in DOMAIN m.body[1].args |-> m.body[1].args[i].hashOf] = names

\* the position of a decorator's handler in registerDefaults
registrationIndex(decoratorName) ==
  CHOOSE i \in DOMAIN registerDefaults :
    registerDefaults[i].decoratorName = decoratorName

\* the generated members of the rewritten class other than its constructor
GeneratedTail(node) ==
  SelectSeq(node.members, LAMBDA m : m.generated /\ m.kind # "constructor")

\* the handlers of the names `written`, taken in the order `order`
HandlersInOrder(written, order) ==
  [i \in DOMAIN order |-> registryGet(written[order[i]])]

\* plan mutation and member synthesis both went through the handlers hs
SameOrderForPlanAndMembers(hs) ==
  /\ pc = "modifyPlan" =>
       plan = modifyPlans(SubSeq(hs, 1, idx - 1),
                          createPlan(cls, properties, decorators))
  /\ Rewritten =>
       /\ plan = modifyPlans(hs, createPlan(cls, properties, decorators))
       /\ GeneratedTail(out)
            = Flatten([i \in DOMAIN hs |->
                         keptGenerated(cls, generateMembers(hs[i], plan))])

\* C20 as written: the handlers run in descending priority, handlers of
\* equal priority in registration order whatever the order the decorators
\* are written in, and plan mutation and member synthesis use that order.
C20_TiesInRegistrationOrder ==
  pc \in {"modifyPlan", "transformed"} =>
    /\ \A i, j \in DOMAIN handlers :
         i < j =>
           \/ handlers[i].priority > handlers[j].priority
           \/ /\ handlers[i].priority = handlers[j].priority
              /\ registrationIndex(handlers[i].decoratorName)
                   <= registrationIndex(handlers[j].decoratorName)
    /\ SameOrderForPlanAndMembers(handlers)

\* C20 amended: the handlers are those of the recognized decorators written
\* on the class, one per decorator written, in descending priority, handlers
\* of equal priority in the order their decorators are written; plan
\* mutation and member synthesis both use that order.
C20_TiesInWrittenOrder ==
  pc \in {"modifyPlan", "transformed"} =>
    \E order \in [DOMAIN decorators -> DOMAIN decorators] :
      /\ \A i, j \in DOMAIN order : i # j => order[i] # order[j]
      /\ \A i, j \in DOMAIN order :
           i < j =>
             \/ registryGet(decorators[order[i]]).priority
                  > registryGet(decorators[order[j]]).priority
             \/ /\ registryGet(decorators[order[i]]).priority
                     = registryGet(decorators[order[j]]).priority
                /\ order[i] < order[j]
      /\ handlers = HandlersInOrder(decorators, order)
      /\ SameOrderForPlanAndMembers(HandlersInOrder(decorators, order))

\* C20 witness: @ToString @Value @Record has been rewritten by the handlers
\* of @Value, @Record and @ToString, in that order
C20_Witness ==
  /\ Rewritten
  /\ cls.decorators = <<t_ToString, t_Value, t_Record>>
  /\ [i \in DOMAIN handlers |-> handlers[i].decoratorName]
       = <<t_Value, t_Record, t_ToString>>
  /\ GeneratedCount(out, t_toString) = 3

\* ------------------------------------------------ the emitted class at run time
\* JavaScript values: null, undefined, a number, a string
Null == [type |-> "null", num |-> 0, str |-> <<>>]
Undefined == [type |-> "undefined", num |-> 0, str |-> <<>>]
Num(n) == [type |-> "number", num |-> n, str |-> <<>>]
Str(t) == [type |-> "string", num |-> 0, str |-> t]
Bool(b) == [type |-> "boolean", num |-> IF b THEN 1 ELSE 0, str |-> <<>>]
NaN == [type |-> "NaN", num |-> 0, str |-> <<>>]

\* the value a field initializer of the source evaluates to
InitializerValue == Str(<<"i","n","i","t">>)

\* the values the test program passes to constructors and withX
Values == {Null, Undefined, Num(1)}

\* the value the test program tries to assign to a field afterwards
AssignedValue == Str(<<"J","a","n","e">>)

\* v == null
looseEqualsNull(v) == v.type \in {"null", "undefined"}

\* the instance fields the emitted class declares
InstanceProperties(klass) ==
  {m \in Members(klass) : m.kind = "property" /\ ~m.static /\ m.nameKind = "identifier"}

\* `this` on entry to the constructor body: declared fields hold their
\* initializer's value; a field without one reads undefined
freshObject(klass) ==
  [fields |-> [n \in {m.name : m \in InstanceProperties(klass)} |->
                 IF \E m \in InstanceProperties(klass) : m.name = n /\ m.initializer
                   THEN InitializerValue ELSE Undefined],
   frozen |-> FALSE]

\* the value bound to parameter `name` when the function is called with args
argument(params, args, name) ==
  IF \E i \in DOMAIN params : params[i] = name /\ i <= Len(args)
    THEN args[CHOOSE i \in DOMAIN params : params[i] = name /\ i <= Len(args)]
    ELSE Undefined

\* this.field = value: rejected on a frozen object, creates the property
\* otherwise
assignField(object, field, value) ==
  IF object.frozen THEN object
  ELSE [object EXCEPT !.fields =
          [n \in DOMAIN object.fields \cup {field} |->
             IF n = field THEN value ELSE object.fields[n]]]

\* runs the statements of a generated constructor body on `object`
RECURSIVE runConstructorBody(_, _, _, _)
runConstructorBody(body, params, args, object) ==
  IF body = <<>> THEN [threw |-> FALSE, message |-> <<>>, object |-> object]
  ELSE LET st == Head(body) IN
    CASE st.stmt = "nonnull" ->
           IF looseEqualsNull(argument(params, args, st.field))
             THEN [threw |-> TRUE, message |-> st.text, object |-> object]
             ELSE runConstructorBody(Tail(body), params, args, object)
      [] st.stmt = "assign" ->
           runConstructorBody(Tail(body), params, args,
             assignField(object, st.field, argument(params, args, st.field)))
      [] st.stmt = "freeze" ->
           runConstructorBody(Tail(body), params, args,
             [object EXCEPT !.frozen = TRUE])

\* the class's constructor is hand-written: its body is not modelled
hasUserConstructor(klass) ==
  \E m \in Members(klass) : m.kind = "constructor" /\ ~m.generated

\* new ClassName(...args) on the emitted class without a hand-written
\* constructor: the default constructor ignores its arguments
construct(klass, args) ==
  IF GeneratedConstructors(klass) = {}
    THEN [threw |-> FALSE, message |-> <<>>, object |-> freshObject(klass)]
    ELSE LET c == CHOOSE m \in GeneratedConstructors(klass) : TRUE
         IN runConstructorBody(c.body, c.params, args, freshObject(klass))

\* the arguments of `new ClassName(this.a, x, this.c)` in a withX body
withArguments(st, receiver, value) ==
  [i \in DOMAIN st.args |->
     IF st.args[i] = st.field THEN value
     ELSE IF st.args[i] \in DOMAIN receiver.fields
            THEN receiver.fields[st.args[i]] ELSE Undefined]

\* ------------------------------------------------- the emitted program, running
RunDecoratorNames ==
  {t_Record, t_Value, t_With, t_Data, t_NoArgsConstructor,
   t_AllArgsConstructor, t_RequiredArgsConstructor, t_Singleton}

RunDecoratorLists ==
  UNION {[1..n -> RunDecoratorNames] : n \in 0..MaxDecorators}

RunMemberLists ==
  { <<UserProperty(fx, FALSE, FALSE, FALSE, FALSE, <<>>),
      UserProperty(fy, FALSE, FALSE, FALSE, FALSE, <<>>)>>,
    <<UserProperty(fx, FALSE, FALSE, FALSE, FALSE, <<t_NonNull>>),
      UserProperty(fy, FALSE, FALSE, FALSE, FALSE, <<>>)>>,
    <<UserProperty(fy, FALSE, FALSE, FALSE, TRUE, <<>>),
      UserProperty(fx, FALSE, FALSE, FALSE, FALSE, <<t_NonNull>>)>>,
    <<UserProperty(fx, FALSE, FALSE, FALSE, FALSE, <<>>),
      UserProperty(fy, FALSE, FALSE, FALSE, FALSE, <<>>),
      UserConstructor>> }

RunClasses ==
  { [name |-> t_User, decorators |-> ds, members |-> ms] :
      ds \in RunDecoratorLists, ms \in RunMemberLists }

NoOp ==
  [op |-> "none", ref |-> 0, field |-> <<>>, args |-> <<>>, value |-> Undefined,
   threw |-> FALSE, message |-> <<>>, before |-> <<>>,
   other |-> [kind |-> "value", value |-> Undefined, ref |-> 0],
   result |-> Undefined]

InitRun ==
  /\ cls \in RunClasses
  /\ pc = "source"
  /\ decorators = <<>>
  /\ properties = <<>>
  /\ plan = NoPlan
  /\ handlers = <<>>
  /\ idx = 1
  /\ out = cls
  /\ heap = <<>>
  /\ last = NoOp
  /\ statics = <<>>
  /\ calls = <<>>
  /\ visit = NoVisit

\* the compiler runs the transformer over the class and emits the result
Emit ==
  /\ pc = "source"
  /\ out' = transformClass(cls)
  /\ properties' = getClassProperties(cls)
  /\ pc' = "emitted"
  /\ UNCHANGED <<cls, decorators, plan, handlers, idx, heap, last,
               statics, calls, visit>>

\* const original = new User(a1, .., an): one argument per declared field
New ==
  /\ pc = "emitted"
  /\ ~hasUserConstructor(out)
  /\ \E args \in [1..Len(properties) -> Values] :
       LET r == construct(out, args) IN
         /\ heap' = IF r.threw THEN heap ELSE <<r.object>>
         /\ pc' = IF r.threw THEN "threw" ELSE "constructed"
         /\ last' = [NoOp EXCEPT !.op = "new", !.args = args,
                                 !.ref = IF r.threw THEN 0 ELSE 1,
                                 !.threw = r.threw, !.message = r.message]
  /\ UNCHANGED <<cls, decorators, properties, plan, handlers, idx, out,
               statics, calls, visit>>

\* const updated = original.withX(value), withX a generated method
CallWith ==
  /\ pc = "constructed"
  /\ \E q \in {properties[i] : i \in DOMAIN properties}, value \in Values :
       \E m \in GeneratedMethods(out, t_with \o capitalize(q.name)) :
         LET r == construct(out, withArguments(m.body[1], heap[1], value)) IN
           /\ heap' = IF r.threw THEN heap ELSE heap \o <<r.object>>
           /\ pc' = IF r.threw THEN "threw" ELSE "updated"
           /\ last' = [NoOp EXCEPT !.op = "with", !.field = q.name,
                                   !.value = value,
                                   !.ref = IF r.threw THEN 0 ELSE Len(heap) + 1,
                                   !.threw = r.threw, !.message = r.message]
  /\ UNCHANGED <<cls, decorators, properties, plan, handlers, idx, out,
               statics, calls, visit>>

\* object.field = 'Jane' on the object the program made last, and the
\* program ends
Assign ==
  /\ pc \in {"constructed", "updated"}
  /\ \E q \in {properties[i] : i \in DOMAIN properties} :
       /\ heap' = [heap EXCEPT ![Len(heap)] =
                     assignField(heap[Len(heap)], q.name, AssignedValue)]
       /\ last' = [NoOp EXCEPT !.op = "assign", !.ref = Len(heap),
                               !.field = q.name, !.value = AssignedValue,
                               !.before = <<heap[Len(heap)]>>]
  /\ pc' = "done"
  /\ UNCHANGED <<cls, decorators, properties, plan, handlers, idx, out,
               statics, calls, visit>>

NextRun ==
  \/ Emit
  \/ New
  \/ CallWith
  \/ Assign

SpecRun == InitRun /\ [][NextRun]_vars

\* ------------------------------------------------- properties at run time
\* C4: on a class carrying @With, the generated withX(v) returns a new
\* instance, not the receiver, whose field X is v and whose other fields
\* equal the receiver's.
C4_WithReturnsUpdatedCopy ==
  (last.op = "with" /\ ~last.threw) =>
    /\ last.ref # 1
    /\ heap[last.ref].fields[last.field] = last.value
    /\ \A i \in DOMAIN properties :
         properties[i].name # last.field =>
           heap[last.ref].fields[properties[i].name]
             = heap[1].fields[properties[i].name]

\* a field assignment, if the program attempted one, changed nothing
AssignmentRejected ==
  last.op = "assign" => heap[last.ref] = last.before[1]

C6_NonNullValidated ==
  last.op = "new" =>
    \A i \in DOMAIN properties :
      properties[i].isNonNull =>
        IF looseEqualsNull(last.args[i])
          THEN last.threw /\ last.message = properties[i].name \o t_cannotBeNull
          ELSE ~last.threw => heap[1].fields[properties[i].name] = last.args[i]

\* ------------------------------------------- the generated methods, called
\* most objects the test program makes with `new`
MaxObjects == 2

\* most calls of getInstance() the test program makes
MaxCalls == 2

t_null == <<"n","u","l","l">>
t_undefined == <<"u","n","d","e","f","i","n","e","d">>
t_NaN == <<"N","a","N">>
t_true == <<"t","r","u","e">>
t_false == <<"f","a","l","s","e">>
Digits == <<"0","1","2","3","4","5","6","7","8","9">>

\* Number.prototype.toString of an integer
RECURSIVE integerToString(_)
integerToString(n) ==
  IF n < 0 THEN <<"-">> \o integerToString(0 - n)
  ELSE IF n < 10 THEN <<Digits[n + 1]>>
  ELSE integerToString(n \div 10) \o <<Digits[(n % 10) + 1]>>

\* String(v), the conversion a template span applies to its expression
String(v) ==
  CASE v.type = "null" -> t_null
    [] v.type = "undefined" -> t_undefined
    [] v.type = "NaN" -> t_NaN
    [] v.type = "number" -> integerToString(v.num)
    [] v.type = "boolean" -> IF v.num = 1 THEN t_true ELSE t_false
    [] v.type = "string" -> v.str

\* typeof v
typeOf(v) ==
  CASE v.type = "null" -> "object"
    [] v.type = "NaN" -> "number"
    [] OTHER -> v.type

\* a === b on primitive values: NaN is not equal to itself
strictEquals(a, b) == a.type # "NaN" /\ b.type # "NaN" /\ a = b

\* The sum of the hash can leave the signed 32-bit range, so it is kept in two
\* parts: hi * 65536 + lo with 0 <= lo < 65536. JavaScript computes it in
\* double precision, which is exact below 2^53; the sums here stay below 2^43.
Wide(n) == [type |-> "wide", hi |-> n \div 65536, lo |-> n % 65536]

\* acc * 31 + h
times31Plus(acc, h) ==
  LET lo == acc.lo * 31 + h.lo
  IN [type |-> "wide",
      hi |-> acc.hi * 31 + h.hi + (lo \div 65536),
      lo |-> lo % 65536]

\* mutant: a sum outside the 32-bit range is clamped to the nearest bound
toInt32_saturate(v) ==
  IF v.type = "NaN" THEN Num(0)
  ELSE IF v.hi >= 32768 THEN Num(2147483647)
  ELSE IF v.hi < 0 - 32768 THEN Num(0 - 2147483647 - 1)
  ELSE Num(v.hi * 65536 + v.lo)

\* n | 0 (ToInt32): 0 for NaN, otherwise n modulo 2^32 taken into the range
\* -2^31 .. 2^31 - 1
toInt32(v) ==
  IF v.type = "NaN" THEN Num(0)
  ELSE LET hi == v.hi % 65536
       IN Num((IF hi >= 32768 THEN hi - 65536 ELSE hi) * 65536 + v.lo)

\* this.name, undefined when the object has no such property
fieldValue(object, name) ==
  IF name \in DOMAIN object.fields THEN object.fields[name] ELSE Undefined

\* the template literal of toString, evaluated on `object`
RECURSIVE evaluateSpans(_, _)
evaluateSpans(spans, object) ==
  IF spans = <<>> THEN <<>>
  ELSE String(fieldValue(object, Head(spans).field)) \o Head(spans).literal
         \o evaluateSpans(Tail(spans), object)

\* object.toString(), toString the generated method m
callToString(m, object) ==
  Str(m.body[1].text \o evaluateSpans(m.body[1].args, object))

\* one operand of the hash, evaluated on `object`
evaluateFieldHash(operand, object) ==
  LET v == fieldValue(object, operand.hashOf)
  IN IF looseEqualsNull(v) THEN Num(0)
     ELSE IF typeOf(v) = "number" THEN v
     ELSE Num(Len(String(v)))

\* ((h1 * 31) + h2) * 31 + h3 ..., NaN as soon as one operand is NaN
RECURSIVE evaluateHashSum(_, _)
evaluateHashSum(operands, object) ==
  IF Len(operands) = 1
    THEN LET h == evaluateFieldHash(operands[1], object)
         IN IF h.type = "NaN" THEN NaN ELSE Wide(h.num)
  ELSE LET acc == evaluateHashSum(SubSeq(operands, 1, Len(operands) - 1), object)
           h == evaluateFieldHash(operands[Len(operands)], object)
       IN IF acc.type = "NaN" \/ h.type = "NaN" THEN NaN
          ELSE times31Plus(acc, Wide(h.num))

\* mutant: the hash is the identity of the object, not its fields
callHashCode_identity(m, objects, ref) == Num(ref)

\* objects[ref].hashCode(), hashCode the generated method m
callHashCode(m, objects, ref) ==
  IF m.body[1].args = <<>> THEN Num(0)
  ELSE toInt32(evaluateHashSum(m.body[1].args, objects[ref]))

\* An argument of equals: a primitive value (kind "value"), the instance
\* objects[ref] (kind "ref"), or an object that is not an instance of the
\* class and has the fields of objects[ref] (kind "foreign").
Arg(kind, value, ref) == [kind |-> kind, value |-> value, ref |-> ref]

\* the && chain of equals, evaluated on this and other
evaluateEqualityCheck(checks, this, other) ==
  \A i \in DOMAIN checks :
    strictEquals(fieldValue(this, checks[i].left),
                 fieldValue(other, checks[i].right))

\* mutant: the identity test comes first, the comparison of the fields second,
\* the tests of null and of the class last
RECURSIVE runEquals_fieldsFirst(_, _, _, _)
runEquals_fieldsFirst(body, objects, ref, other) ==
  IF other.kind = "ref" /\ other.ref = ref THEN TRUE
  ELSE IF other.kind = "value" THEN FALSE
  ELSE evaluateEqualityCheck(body[Len(body)].args, objects[ref],
                             objects[other.ref])

\* the statements of the generated equals, run in order on this = objects[ref]
RECURSIVE runEquals(_, _, _, _)
runEquals(body, objects, ref, other) ==
  LET st == Head(body) IN
    CASE st.stmt = "ifNullReturnFalse" ->
           IF other.kind = "value" /\ looseEqualsNull(other.value) THEN FALSE
           ELSE runEquals(Tail(body), objects, ref, other)
      [] st.stmt = "ifSameReturnTrue" ->
           IF other.kind = "ref" /\ other.ref = ref THEN TRUE
           ELSE runEquals(Tail(body), objects, ref, other)
      [] st.stmt = "ifNotInstanceReturnFalse" ->
           IF other.kind # "ref" THEN FALSE
           ELSE runEquals(Tail(body), objects, ref, other)
      [] st.stmt = "returnEquality" ->
           evaluateEqualityCheck(st.args, objects[ref], objects[other.ref])

\* objects[ref].equals(other), equals the generated method m
callEquals(m, objects, ref, other) == runEquals(m.body, objects, ref, other)

\* mutant: a static field never holds what was stored in it
staticValue_unset(st, field) == 0

\* ClassName.field, null before anything is stored (0 stands for no object)
staticValue(st, field) == IF field \in DOMAIN st THEN st[field] ELSE 0

\* the statements of the generated getInstance, run in order; r collects the
\* static fields, the objects, whether `new` ran and threw, the value returned
RECURSIVE runGetInstance(_, _, _)
runGetInstance(body, klass, r) ==
  IF body = <<>> \/ r.threw THEN r
  ELSE LET st == Head(body) IN
    CASE st.stmt = "ifNoInstanceNew" ->
           IF staticValue(r.statics, st.field) # 0
             THEN runGetInstance(Tail(body), klass, r)
             ELSE LET made == construct(klass, <<>>) IN
               IF made.threw
                 THEN [r EXCEPT !.threw = TRUE, !.message = made.message]
                 ELSE runGetInstance(Tail(body), klass,
                        [r EXCEPT
                           !.constructed = TRUE,
                           !.objects = r.objects \o <<made.object>>,
                           !.statics =
                             [f \in DOMAIN r.statics \cup {st.field} |->
                                IF f = st.field THEN Len(r.objects) + 1
                                ELSE r.statics[f]]])
      [] st.stmt = "returnInstance" ->
           [r EXCEPT !.returned = staticValue(r.statics, st.field)]

\* the values the test program stores in the fields of the objects it makes
MethodValues == {Null, Num(1), NaN, Str(<<"a","b">>)}

MethodDecoratorLists ==
  { <<t_Equals>>, <<t_ToString>>, <<t_Record>>, <<t_Data>>,
    <<t_Singleton>>, <<t_Singleton, t_NoArgsConstructor>>,
    <<t_Singleton, t_Data>> }

MethodMemberLists ==
  { <<>>,
    <<UserProperty(fx, FALSE, FALSE, FALSE, FALSE, <<>>)>>,
    <<UserProperty(fx, FALSE, FALSE, FALSE, FALSE, <<>>),
      UserProperty(fy, FALSE, FALSE, FALSE, FALSE, <<>>)>>,
    <<UserProperty(fz, TRUE, FALSE, FALSE, FALSE, <<>>),
      UserProperty(fy, FALSE, FALSE, FALSE, TRUE, <<>>),
      UserProperty(fx, FALSE, FALSE, FALSE, FALSE, <<t_NonNull>>)>> }

MethodClasses ==
  { [name |-> t_User, decorators |-> ds, members |-> ms] :
      ds \in MethodDecoratorLists, ms \in MethodMemberLists }

InitMethods ==
  /\ cls \in MethodClasses
  /\ pc = "source"
  /\ decorators = <<>>
  /\ properties = <<>>
  /\ plan = NoPlan
  /\ handlers = <<>>
  /\ idx = 1
  /\ out = cls
  /\ heap = <<>>
  /\ last = NoOp
  /\ statics = <<>>
  /\ calls = <<>>
  /\ visit = NoVisit

\* the emitted class has a constructor the program may not call
hasPrivateConstructor(klass) ==
  \E m \in Members(klass) : m.kind = "constructor" /\ m.private

\* p.x = v1; p.y = v2: one assignment per property, in order
RECURSIVE assignFields(_, _, _)
assignFields(object, props, values) ==
  IF props = <<>> THEN object
  ELSE assignFields(assignField(object, Head(props).name, Head(values)),
                    Tail(props), Tail(values))

\* const p = new User(v1, v2); p.x = v1; p.y = v2;
NewObject ==
  /\ pc \in {"emitted", "running"}
  /\ Len(heap) < MaxObjects
  /\ ~hasUserConstructor(out)
  /\ ~hasPrivateConstructor(out)
  /\ \E args \in [1..Len(properties) -> MethodValues] :
       LET r == construct(out, args) IN
         /\ heap' = IF r.threw THEN heap
                    ELSE heap \o <<assignFields(r.object, properties, args)>>
         /\ last' = [NoOp EXCEPT !.op = "new", !.args = args,
                                 !.ref = IF r.threw THEN 0 ELSE Len(heap) + 1,
                                 !.threw = r.threw, !.message = r.message]
  /\ pc' = "running"
  /\ UNCHANGED <<cls, decorators, properties, plan, handlers, idx, out,
                 statics, calls, visit>>

\* the arguments the test program passes to equals
Others ==
  {Arg("value", v, 0) : v \in {Null, Undefined, Num(1)}}
    \cup {Arg(k, Undefined, ref) : k \in {"ref", "foreign"}, ref \in DOMAIN heap}

\* heap[ref].equals(other), the last statement of the test program
CallEquals ==
  /\ pc = "running"
  /\ \E ref \in DOMAIN heap, other \in Others :
       \E m \in GeneratedMethods(out, t_equals) :
         last' = [NoOp EXCEPT !.op = "equals", !.ref = ref, !.other = other,
                              !.result = Bool(callEquals(m, heap, ref, other))]
  /\ pc' = "called"
  /\ UNCHANGED <<cls, decorators, properties, plan, handlers, idx, out, heap,
                 statics, calls, visit>>

\* heap[ref].hashCode(), the last statement of the test program
CallHashCode ==
  /\ pc = "running"
  /\ \E ref \in DOMAIN heap :
       \E m \in GeneratedMethods(out, t_hashCode) :
         last' = [NoOp EXCEPT !.op = "hashCode", !.ref = ref,
                              !.result = callHashCode(m, heap, ref)]
  /\ pc' = "called"
  /\ UNCHANGED <<cls, decorators, properties, plan, handlers, idx, out, heap,
                 statics, calls, visit>>

\* heap[ref].toString(), the last statement of the test program
CallToString ==
  /\ pc = "running"
  /\ \E ref \in DOMAIN heap :
       \E m \in GeneratedMethods(out, t_toString) :
         last' = [NoOp EXCEPT !.op = "toString", !.ref = ref,
                              !.result = callToString(m, heap[ref])]
  /\ pc' = "called"
  /\ UNCHANGED <<cls, decorators, properties, plan, handlers, idx, out, heap,
                 statics, calls, visit>>

\* User.getInstance()
GetInstance ==
  /\ pc \in {"emitted", "running"}
  /\ Len(calls) < MaxCalls
  /\ ~hasUserConstructor(out)
  /\ \E m \in GeneratedMethods(out, t_getInstance) :
       LET r == runGetInstance(m.body, out,
                  [statics |-> statics, objects |-> heap, constructed |-> FALSE,
                   threw |-> FALSE, message |-> <<>>, returned |-> 0])
       IN /\ heap' = r.objects
          /\ statics' = r.statics
          /\ calls' = Append(calls, [constructed |-> r.constructed,
                                     threw |-> r.threw, returned |-> r.returned])
          /\ last' = [NoOp EXCEPT !.op = "getInstance", !.ref = r.returned,
                                  !.threw = r.threw, !.message = r.message]
  /\ pc' = "running"
  /\ UNCHANGED <<cls, decorators, properties, plan, handlers, idx, out,
                 visit>>

NextMethods ==
  \/ Emit
  \/ NewObject
  \/ CallEquals
  \/ CallHashCode
  \/ CallToString
  \/ GetInstance

SpecMethods == InitMethods /\ [][NextMethods]_vars

\* --------------------------------------- properties of the generated methods
\* the objects a and b hold the same value in every property
SameFieldValues(a, b) ==
  \A i \in DOMAIN properties :
    fieldValue(a, properties[i].name) = fieldValue(b, properties[i].name)

\* what equals is to answer, decided in the order: null, identity, class,
\* strict equality of every property
EqualsDecision(this, ref, other) ==
  IF other.kind = "value" /\ looseEqualsNull(other.value) THEN FALSE
  ELSE IF other.kind = "ref" /\ other.ref = ref THEN TRUE
  ELSE IF other.kind # "ref" THEN FALSE
  ELSE \A i \in DOMAIN properties :
         strictEquals(fieldValue(this, properties[i].name),
                      fieldValue(heap[other.ref], properties[i].name))

\* C12 as written: equals answers false for null or undefined, true for the
\* receiver itself, false for what is not an instance of the class, otherwise
\* the AND of the strict equality of every property; x.equals(x) is true,
\* x.equals(null) is false, two instances with identical field values are
\* equal and instances that differ in a field are unequal.
C12_EqualsDecides ==
  last.op = "equals" =>
    /\ last.result = Bool(EqualsDecision(heap[last.ref], last.ref, last.other))
    /\ last.other.kind = "ref" =>
         last.result
           = Bool(SameFieldValues(heap[last.ref], heap[last.other.ref]))

\* C12 amended: equals answers false for null or undefined, true for the
\* receiver itself, false for what is not an instance of the class, otherwise
\* the AND of the strict equality of every property; x.equals(x) is true,
\* x.equals(null) is false, instances that differ in a property are unequal,
\* and two distinct instances with identical property values are equal
\* unless one of the values is NaN, which is not strictly equal to itself.
C12_EqualsDecidesStrict ==
  last.op = "equals" =>
    /\ last.result = Bool(EqualsDecision(heap[last.ref], last.ref, last.other))
    /\ (last.other.kind = "ref" /\ last.other.ref = last.ref) =>
         last.result = Bool(TRUE)
    /\ (last.other.kind = "value" /\ last.other.value = Null) =>
         last.result = Bool(FALSE)
    /\ (last.other.kind = "ref" /\ last.other.ref # last.ref) =>
         last.result
           = Bool(/\ SameFieldValues(heap[last.ref], heap[last.other.ref])
                  /\ \A i \in DOMAIN properties :
                       fieldValue(heap[last.ref], properties[i].name) # NaN)

\* C12 witness: equals has answered true for another instance with the same
\* two property values
C12_Witness ==
  /\ last.op = "equals"
  /\ last.other.kind = "ref" /\ last.other.ref # last.ref
  /\ Len(properties) = 2
  /\ last.result = Bool(TRUE)

\* C13: when hashCode has been called on an instance, every instance that
\* equals it, and every instance with the same property values, has the same
\* hashCode.
C13_EqualObjectsEqualHashes ==
  last.op = "hashCode" =>
    \A b \in DOMAIN heap :
      \A h \in GeneratedMethods(out, t_hashCode) :
        /\ \A e \in GeneratedMethods(out, t_equals) :
             callEquals(e, heap, last.ref, Arg("ref", Undefined, b)) =>
               callHashCode(h, heap, b) = last.result
        /\ SameFieldValues(heap[last.ref], heap[b]) =>
             callHashCode(h, heap, b) = last.result

\* C13 witness: hashCode called on the second of two distinct instances with
\* the same two property values, a number and a string
C13_Witness ==
  /\ last.op = "hashCode" /\ last.ref = 2
  /\ Len(properties) = 2
  /\ heap[1].fields = heap[2].fields
  /\ heap[2].fields[properties[1].name] = Num(1)
  /\ heap[2].fields[properties[2].name] = Str(<<"a","b">>)
  /\ last.result = Num(33)

\* "f1=v1, f2=v2, ..." for the properties props of object
RECURSIVE FieldsJoined(_, _)
FieldsJoined(props, object) ==
  IF props = <<>> THEN <<>>
  ELSE Head(props).name \o <<"=">> \o String(fieldValue(object, Head(props).name))
         \o (IF Len(props) > 1 THEN <<",", " ">> ELSE <<>>)
         \o FieldsJoined(Tail(props), object)

\* C14: toString returns the class name, "(", "<field>=<value>" for every
\* property in declaration order separated by ", ", and ")"; "<ClassName>()"
\* for a class with no property.
C14_ToStringFormat ==
  last.op = "toString" =>
    /\ last.result
         = Str(cls.name \o <<"(">> \o FieldsJoined(properties, heap[last.ref])
                 \o <<")">>)
    /\ properties = <<>> => last.result = Str(cls.name \o <<"(", ")">>)

\* C14 witness: toString has returned "User(x=1, y=ab)"
C14_Witness ==
  /\ last.op = "toString"
  /\ last.result
       = Str(<<"U","s","e","r","(","x","=","1",",", " ","y","=","a","b",")">>)

\* C15: of the calls of getInstance() made so far, at most one constructed an
\* instance, none after a call that returned, and every call that returned
\* returned the same instance, the one cached in the static field.
C15_SingletonCached ==
  /\ Cardinality({i \in DOMAIN calls : calls[i].constructed}) <= 1
  /\ \A i \in DOMAIN calls :
       /\ calls[i].constructed => \A j \in 1..(i - 1) : calls[j].threw
       /\ ~calls[i].threw =>
            /\ calls[i].returned \in DOMAIN heap
            /\ calls[i].returned = staticValue(statics, t_instance)
            /\ \A j \in DOMAIN calls :
                 ~calls[j].threw => calls[j].returned = calls[i].returned

\* C15 witness: two calls of getInstance(), the first constructed the
\* instance, the second returned it
C15_Witness ==
  /\ Len(calls) = 2
  /\ calls[1].constructed /\ ~calls[2].constructed
  /\ ~calls[2].threw
  /\ calls[2].returned = calls[1].returned
  /\ calls[2].returned \in DOMAIN heap

\* C16: the constructor of a class carrying @Singleton is private after the
\* rewrite, and at most one instance of the class exists.
C16_SingletonOnlyInstance ==
  (pc # "source" /\ includes(cls.decorators, t_Singleton)) =>
    /\ hasPrivateConstructor(out)
    /\ Len(heap) <= 1

\* ------------------------------------- transformClass, further properties
\* the recognized markers written on the class, as a set
RecognizedMarkers(node) ==
  {node.decorators[i] : i \in {j \in DOMAIN node.decorators :
                                 registryHas(node.decorators[j])}}

\* C21: the handler list of a class holds exactly one handler per distinct
\* recognized marker on the class, also when a marker is written twice, so
\* the plan mutation and the member synthesis of a handler run once each.
C21_OneHandlerPerMarker ==
  pc \in {"modifyPlan", "transformed"} =>
    /\ {handlers[i].decoratorName : i \in DOMAIN handlers}
         = RecognizedMarkers(cls)
    /\ \A i, j \in DOMAIN handlers :
         i # j => handlers[i].decoratorName # handlers[j].decoratorName

\* the boolean generation flags of a plan
BooleanFlags ==
  {"generateConstructor", "freezeInstance", "makeReadonly",
   "generateToString", "generateEquals", "generateHashCode",
   "generateWithMethods", "generateGetters", "generateSetters",
   "generateBuilder", "generateLog", "generateSingleton"}

\* going from plan p to plan q switches no flag off and keeps validateNonNull
Monotone(p, q) ==
  /\ \A f \in BooleanFlags : p[f] => q[f]
  /\ q.validateNonNull = p.validateNonNull

\* C22: whichever plan the loop over the handlers has reached, the
\* plan-mutation step of any registered handler leaves every flag that is
\* true true and leaves the null-validation flag as createDefaultPlan set it.
C22_FlagsMonotone ==
  pc = "modifyPlan" =>
    /\ \A i \in DOMAIN registerDefaults :
         Monotone(plan, modifyPlan(registerDefaults[i], plan))
    /\ Monotone(createPlan(cls, properties, decorators), plan)

\* C22 witness: a second handler has run on a plan the first one froze, for a
\* class whose plan was seeded with null validation
C22_Witness ==
  /\ pc = "modifyPlan"
  /\ idx = 3
  /\ handlers[1].decoratorName # handlers[2].decoratorName
  /\ plan.freezeInstance
  /\ plan.validateNonNull

\* C23: no member a handler generated (method or field) is in the rewritten
\* class under a name that a hand-written member of the original class, of
\* any kind, already has.
C23_NoGeneratedOverHandWritten ==
  Rewritten =>
    \A m \in Members(cls), g \in Members(out) :
      (m.kind # "constructor" /\ g.generated /\ g.kind # "constructor")
        => g.name # m.name

\* C24: the body of every generated constructor is, in this order: the null
\* checks, then one assignment this.f = f per parameter in parameter order,
\* then Object.freeze(this) when the plan freezes the instance; nothing else.
C24_ConstructorBodyOrder ==
  Rewritten =>
    \A g \in GeneratedConstructors(out) :
      LET n == Len(g.params)
          frozen == IF plan.freezeInstance THEN 1 ELSE 0
          k == Len(g.body) - n - frozen
      IN /\ k >= 0
         /\ \A i \in 1..k : g.body[i].stmt = "nonnull"
         /\ \A i \in 1..n : /\ g.body[k + i].stmt = "assign"
                            /\ g.body[k + i].field = g.params[i]
         /\ frozen = 1 => g.body[Len(g.body)].stmt = "freeze"

\* C24 witness: a generated constructor with a null check, two assignments and
\* the freeze
C24_Witness ==
  /\ Rewritten
  /\ \E g \in GeneratedConstructors(out) :
       /\ Len(g.params) = 2
       /\ Len(g.body) = 4
       /\ g.body[1].stmt = "nonnull"
       /\ g.body[4].stmt = "freeze"

\* kind and name of the fields and methods of a class that satisfy Keep
Signatures(node, Keep(_)) ==
  Map(SelectSeq(node.members,
                LAMBDA m : m.kind \in {"property", "method"} /\ Keep(m)),
      LAMBDA m : <<m.kind, m.nameKind, m.name>>)

NoHandWrittenMethods(node) == \A m \in Members(node) : m.kind # "method"

\* C28: for a class without hand-written methods that carries any
\* combination of distinct recognized markers, no two members that the
\* handlers generated for the rewritten class have the same name.
C28_OneMemberPerName ==
  (Rewritten /\ NoHandWrittenMethods(cls) /\ DistinctDecorators(cls)) =>
    \A i, j \in DOMAIN out.members :
      (/\ i # j
       /\ out.members[i].generated /\ out.members[i].kind # "constructor"
       /\ out.members[j].generated /\ out.members[j].kind # "constructor")
        => out.members[i].name # out.members[j].name

\* the lists that hold the elements of seq in another order
Reorderings(seq) ==
  {[i \in DOMAIN seq |-> seq[f[i]]] :
     f \in {g \in [DOMAIN seq -> DOMAIN seq] :
              \A a, b \in DOMAIN seq : a # b => g[a] # g[b]}}

\* the constructor mode of the plan the handlers of node end with
finalConstructorType(node) ==
  LET known == getKnownDecorators(node)
  IN modifyPlans(getHandlersForDecorators(known),
                 createPlan(node, getClassProperties(node), known)).constructorType

\* C29: the constructor mode of the final plan and the generated constructor
\* depend on which markers the class carries, not on the order they are
\* written in: the same markers in any other order give the same mode and
\* the same generated constructor.
C29_ConstructorModeOrderFree ==
  Rewritten =>
    \A ds \in Reorderings(cls.decorators) :
      LET other == [cls EXCEPT !.decorators = ds]
      IN /\ finalConstructorType(other) = plan.constructorType
         /\ GeneratedConstructors(transformClass(other))
              = GeneratedConstructors(out)

\* C30: the rewritten class has no generated setX for a field X that is
\* read-only in the rewritten class, whether the field was written read-only
\* or was made read-only by the rewrite.
C30_NoSetterForReadonly ==
  Rewritten =>
    \A m \in Members(out) :
      (m.kind = "property" /\ ~m.generated /\ m.readonly) =>
        GeneratedMethods(out, t_set \o capitalize(m.name)) = {}

\* ---------------------------------------------------- hashCode, the value
\* the values the fields of the hashed object hold: null, undefined, numbers
\* (one of them large enough for the sum to leave the 32-bit range, one
\* negative), NaN, a string and a boolean
HashValues ==
  {Null, Undefined, Num(1), Num(0 - 7), Num(100000000), NaN,
   Str(<<"a","b">>), Bool(TRUE)}

\* classes with a generated hashCode and no, one, two and three fields; the
\* objects of the second get their fields from the generated constructor,
\* those of the third are frozen
HashClasses ==
  { [name |-> t_User, decorators |-> ds, members |-> ms] :
      ds \in {<<t_Equals>>, <<t_Data>>, <<t_Record, t_Equals>>},
      ms \in { <<>>,
               <<UserProperty(fx, FALSE, FALSE, FALSE, FALSE, <<>>)>>,
               <<UserProperty(fx, FALSE, FALSE, FALSE, FALSE, <<>>),
                 UserProperty(fy, FALSE, FALSE, FALSE, FALSE, <<>>)>>,
               <<UserProperty(fx, FALSE, FALSE, FALSE, FALSE, <<>>),
                 UserProperty(fy, FALSE, FALSE, FALSE, FALSE, <<>>),
                 UserProperty(fz, FALSE, FALSE, FALSE, FALSE, <<>>)>> } }

InitHash ==
  /\ cls \in HashClasses
  /\ pc = "source"
  /\ decorators = <<>>
  /\ properties = <<>>
  /\ plan = NoPlan
  /\ handlers = <<>>
  /\ idx = 1
  /\ out = cls
  /\ heap = <<>>
  /\ last = NoOp
  /\ statics = <<>>
  /\ calls = <<>>
  /\ visit = NoVisit

\* const p1 = new Point(v1, v2); p1.x = v1; p1.y = v2;  the one object hashed
NewPoint ==
  /\ pc = "emitted"
  /\ \E args \in [1..Len(properties) -> HashValues] :
       LET r == construct(out, args) IN
         /\ ~r.threw
         /\ heap' = <<assignFields(r.object, properties, args)>>
         /\ last' = [NoOp EXCEPT !.op = "new", !.args = args, !.ref = 1]
  /\ pc' = "running"
  /\ UNCHANGED <<cls, decorators, properties, plan, handlers, idx, out,
                 statics, calls, visit>>

NextHash ==
  \/ Emit
  \/ NewPoint
  \/ CallHashCode

SpecHash == InitHash /\ [][NextHash]_vars

\* a + b modulo 2^32, for a and b in -2^31 .. 2^31 - 1
Add32(a, b) ==
  IF a > 0 /\ b > 0 /\ a > 2147483647 - b
    THEN (a - 2147483647 - 1) + (b - 2147483647 - 1)
  ELSE IF a < 0 /\ b < 0 /\ a < (0 - 2147483647 - 1) - b
    THEN (a + 2147483647 + 1) + (b + 2147483647 + 1)
  ELSE a + b

\* 31 * a modulo 2^32, as a + 2a + 4a + 8a + 16a
Times31Mod32(a) ==
  LET a2 == Add32(a, a)
      a4 == Add32(a2, a2)
      a8 == Add32(a4, a4)
      a16 == Add32(a8, a8)
  IN Add32(a16, Add32(a8, Add32(a4, Add32(a2, a))))

\* what a field value contributes to the hash
Contribution(v) ==
  IF v \in {Null, Undefined} THEN 0
  ELSE IF v.type = "number" THEN v.num
  ELSE Len(String(v))

\* the fold acc = acc * 31 + contribution over the values, reduced to 32 bits
\* (reducing after every step gives the residue of the whole sum)
RECURSIVE Fold32(_)
Fold32(values) ==
  IF Len(values) = 1 THEN Contribution(values[1])
  ELSE Add32(Times31Mod32(Fold32(SubSeq(values, 1, Len(values) - 1))),
             Contribution(values[Len(values)]))

\* C27: hashCode() is 0 for a class without properties; otherwise it is the
\* 32-bit integer coercion of the fold acc = acc * 31 + contribution(field)
\* over the properties in declaration order (0 when the fold is NaN), where a
\* null or undefined field contributes 0, a number itself, and any other
\* value the length of its string representation.
C27_HashCodeValue ==
  last.op = "hashCode" =>
    LET values == [i \in DOMAIN properties |->
                     fieldValue(heap[last.ref], properties[i].name)]
    IN last.result =
         IF Len(properties) = 0 THEN Num(0)
         ELSE IF \E i \in DOMAIN values : values[i] = NaN THEN Num(0)
         ELSE Num(Fold32(values))

\* C27 witness: hashCode of an object whose sum leaves the 32-bit range:
\* (100000000 * 31 + 2) | 0 = -1194967294
C27_Witness ==
  /\ last.op = "hashCode"
  /\ Len(properties) = 2
  /\ heap[last.ref].fields[properties[1].name] = Num(100000000)
  /\ heap[last.ref].fields[properties[2].name] = Str(<<"a","b">>)
  /\ last.result = Num(0 - 1194967294)

\* ------------------------------------------------ createVisitor: one file
\* most nodes below the source file node in the files traversed
MaxNodes == 3

\* the node of a function or a statement: no class declaration
NoClass == [name |-> <<>>, decorators |-> <<>>, members |-> <<>>]

\* what a node of the file is: a function, a class the transformer has
\* nothing to do for, or a class it rewrites
NodeContents ==
  { [kind |-> "function", decl |-> NoClass],
    [kind |-> "class",
     decl |-> [name |-> t_User, decorators |-> <<t_Injectable>>,
               members |-> <<UserMethod(t_getX, "identifier")>>]],
    [kind |-> "class",
     decl |-> [name |-> t_User, decorators |-> <<t_Record>>,
               members |-> <<UserProperty(fx, FALSE, FALSE, FALSE, FALSE, <<>>),
                             UserMethod(t_getX, "identifier")>>]] }

\* The files: node i lies inside node file[i].parent (0 is the source file
\* itself); a node inside a class lies in the body of one of its methods.
SourceFiles ==
  UNION { {f \in [1..n -> [parent : 0..(n - 1), content : NodeContents]] :
             \A i \in 1..n : f[i].parent < i} : n \in 1..MaxNodes }

\* the children of node n (0: the source file) in source order
children(file, n) ==
  SelectSeq([i \in DOMAIN file |-> i], LAMBDA i : file[i].parent = n)

\* ts.visitNode(sourceFile, visitor): the visitor is called on the source
\* file, which is no class declaration, so its children are next
InitVisit ==
  /\ cls = NoClass
  /\ pc = "visit"
  /\ decorators = <<>>
  /\ properties = <<>>
  /\ plan = NoPlan
  /\ handlers = <<>>
  /\ idx = 1
  /\ out = NoClass
  /\ heap = <<>>
  /\ last = [op |-> "none"]
  /\ statics = <<>>
  /\ calls = <<>>
  /\ \E file \in SourceFiles :
       visit = [file |-> file,
                pending |-> children(file, 0),
                processed |-> [i \in DOMAIN file |-> 0],
                result |-> [i \in DOMAIN file |-> file[i].content.decl]]

\* visitor(node) for a class declaration: transformClass is called; its
\* result is returned when there is one, and then the children of the node
\* are not visited; otherwise ts.visitEachChild goes on with the children
VisitClassDeclaration ==
  /\ pc = "visit"
  /\ visit.pending # <<>>
  /\ LET n == Head(visit.pending)
         node == visit.file[n].content
     IN /\ node.kind = "class"
        /\ visit' =
             [visit EXCEPT
                !.processed[n] = @ + 1,
                !.result[n] = transformClass(node.decl),
                !.pending = IF noTransformationNeeded(node.decl)
                              THEN children(visit.file, n) \o Tail(@)
                              ELSE Tail(@)]
  /\ UNCHANGED <<cls, pc, decorators, properties, plan, handlers, idx, out,
                 heap, last, statics, calls>>

\* visitor(node) for any other node: ts.visitEachChild(node, visitor, ...)
VisitEachChild ==
  /\ pc = "visit"
  /\ visit.pending # <<>>
  /\ LET n == Head(visit.pending)
     IN /\ visit.file[n].content.kind # "class"
        /\ visit' = [visit EXCEPT
                       !.pending = children(visit.file, n) \o Tail(@)]
  /\ UNCHANGED <<cls, pc, decorators, properties, plan, handlers, idx, out,
                 heap, last, statics, calls>>

NextVisit ==
  \/ VisitClassDeclaration
  \/ VisitEachChild

SpecVisit == InitVisit /\ [][NextVisit]_vars

\* the traversal of the file has returned
Traversed == pc = "visit" /\ visit.pending = <<>>

\* C25: when the traversal of a file has returned, transformClass has been
\* called exactly once on every class declaration of the file, and every
\* class declaration, nested in another class or not, has been replaced by
\* what transformClass makes of it, whatever happened to the enclosing class.
C25_EveryClassOnce ==
  Traversed =>
    \A n \in DOMAIN visit.file :
      visit.file[n].content.kind = "class" =>
        /\ visit.processed[n] = 1
        /\ visit.result[n] = transformClass(visit.file[n].content.decl)

====
